---- MODULE Spec2Model ----
(***************************************************************************)
(* Model of prisonersDilemma.py: the round engine (runRound,               *)
(* runDeterministic, tallyRoundScores), the per-pairing worker (runRounds) *)
(* and the coordinator (runFullPairingTournament).                         *)
(*                                                                         *)
(* Scores are exact rationals kept as integers scaled by ScoreDen.         *)
(***************************************************************************)
EXTENDS Integers, Sequences, FiniteSets, TLC

(***************************************************************************)
(* Program constants                                                       *)
(***************************************************************************)
\* the minimum game length: 200 in runRound, and the floor of --det-turns
MIN_TURNS == 200
\* the scale of the game length distribution, and 1/hazard in turnChance
HAZARD_INV == 40

\* pointsArray[i][j], 0-based in the source, 1-based here
pointsArray == << <<1, 5>>, <<0, 3>> >>

Points(own, opp) == pointsArray[own + 1][opp + 1]

(***************************************************************************)
(* Bounds                                                                  *)
(***************************************************************************)
\* the largest population (length of STRATEGY_LIST before the filter)
MaxStrategies == 3
\* the largest --num-runs
MaxNumRuns == 2
\* the number of times the program is started on the same cache file
MaxProgramRuns == 2

\* the values of --det-turns the model draws from
DetTurnsChoices == {MIN_TURNS, MIN_TURNS + 1}

\* the values of -np.log(1 - random.random()) the model draws from, as
\* <<numerator, denominator>>: random() is in [0, 1), so 1 - random() is in
\* (0, 1] and its logarithm is 0 or less
NegLogDraws == { <<0, 1>>, <<1, 80>>, <<1, 40>>, <<3, 80>> }

\* a game length that subtracts the scaled draw instead of adding it
lengthOfGame_subtracted(negLog) ==
    (MIN_TURNS * negLog[2] - HAZARD_INV * negLog[1]) \div negLog[2]

\* int(200 - 40 * np.log(1 - random.random())), lines 145-147
lengthOfGame(negLog) ==
    (MIN_TURNS * negLog[2] + HAZARD_INV * negLog[1]) \div negLog[2]

\* the values of LENGTH_OF_GAME the model draws from
GameLengths == { lengthOfGame(negLog) : negLog \in NegLogDraws }

(***************************************************************************)
(* Moves, as a strategy returns them: a string or an integer               *)
(***************************************************************************)
StrMove(s) == <<"str", s>>
IntMove(i) == <<"int", i>>

strategyMove(move) ==
    IF move[1] = "str"
    THEN (IF move[2] \in {"defect", "tell truth"} THEN 0 ELSE 1)
    ELSE move[2]

(***************************************************************************)
(* The strategies of the population.  A call gets the history snapshot     *)
(* (own moves in row 1, opponent's in row 2), the memory value, the state  *)
(* of the strategy's module (its globals) and a value of the random source.*)
(* It returns the move, the new memory, the module state, and the array it *)
(* was given as the strategy left it.                                      *)
(***************************************************************************)
Strategies ==
    {"alwaysCooperate", "alwaysDefect", "grimTrigger", "coin", "vandal", "firstCall"}

None == "None"

\* the turns at which the strategy "coin" consults the random source
CoinTurns == {0, MIN_TURNS}

UsesRandom(s, t) == \/ s = "coin" /\ t \in CoinTurns
                    \/ s = "diary" /\ t = 0

\* a row of n zeros, as a sequence
ZeroRow(n) == SubSeq([j \in 1..n |-> 0], 1, n)

Zeroed(snap) == << ZeroRow(Len(snap[1])), ZeroRow(Len(snap[2])) >>

Invoke(s, snap, mem, glob, rnd) ==
    LET t == Len(snap[1]) IN
    CASE s = "alwaysCooperate" ->
           [move |-> StrMove("cooperate"), mem |-> mem, glob |-> glob, arr |-> snap]
      [] s = "alwaysDefect" ->
           [move |-> StrMove("defect"), mem |-> mem, glob |-> glob, arr |-> snap]
      [] s = "grimTrigger" ->
           LET grudge == mem = "grudge" \/ (t > 0 /\ snap[2][t] = 0) IN
           [move |-> IntMove(IF grudge THEN 0 ELSE 1),
            mem |-> IF grudge THEN "grudge" ELSE "calm",
            glob |-> glob, arr |-> snap]
      [] s = "coin" ->
           [move |-> IntMove(IF t \in CoinTurns THEN rnd ELSE 1),
            mem |-> mem, glob |-> glob, arr |-> snap]
      [] s = "vandal" ->
           \* overwrites the array it was given, then stays silent
           [move |-> StrMove("stay silent"), mem |-> mem, glob |-> glob,
            arr |-> Zeroed(snap)]
      [] s = "diary" ->
           \* always cooperates; at turn 0 it notes a value of the random
           \* source in its memory and keeps it.  It is not in the
           \* population of the tournament: it plays single runRounds only
           [move |-> StrMove("cooperate"),
            mem |-> IF t = 0 THEN (IF rnd = 1 THEN "heads" ELSE "tails") ELSE mem,
            glob |-> glob, arr |-> snap]
      [] s = "firstCall" ->
           \* keeps a module-level flag: defects on the first call ever made
           \* to it in this process, cooperates afterwards
           [move |-> IF glob = 0 THEN StrMove("tell truth") ELSE IntMove(1),
            mem |-> mem, glob |-> 1, arr |-> snap]

(***************************************************************************)
(* Histories: np.zeros((2, n), dtype=int)                                  *)
(***************************************************************************)
Zeros(n) == << ZeroRow(n), ZeroRow(n) >>

\* history[:, :turn].copy()
Snapshot(h, turn) == << SubSeq(h[1], 1, turn), SubSeq(h[2], 1, turn) >>

\* the engine's array had the call been given the view history[:, :turn]:
\* what the strategy wrote shows in it
historyAfterCall_view(h, turn, arr) ==
    << arr[1] \o SubSeq(h[1], turn + 1, Len(h[1])),
       arr[2] \o SubSeq(h[2], turn + 1, Len(h[2])) >>

\* The engine's array after a strategy call that was given Snapshot(h, turn)
\* and left it as arr: the snapshot is a copy, so h is what it was.
historyAfterCall(h, turn, arr) == h

\* history[row, turn] = v   (row and turn 0-based)
SetCell(h, row, turn, v) == [h EXCEPT ![row + 1][turn + 1] = v]

(***************************************************************************)
(* The random source: one draw per strategy call of a turn.  A strategy    *)
(* that does not consult it at this turn gets the fixed draw 0.            *)
(***************************************************************************)
DrawSet(s, t) == IF UsesRandom(s, t) THEN {0, 1} ELSE {0}

Draws2(A, B, t) == DrawSet(A, t) \X DrawSet(B, t)

Draws4(A, B, t) == DrawSet(A, t) \X DrawSet(B, t) \X DrawSet(A, t) \X DrawSet(B, t)

\* what the engine records of one strategy call
Call(player, kind, t, snap, memIn, ret, before, after) ==
    [player |-> player, kind |-> kind, turn |-> t, snap |-> snap, memIn |-> memIn,
     move |-> strategyMove(ret.move), memOut |-> ret.mem,
     before |-> before, after |-> after]

(***************************************************************************)
(* runRound: one turn of the loop, and the state before the first turn     *)
(***************************************************************************)
RoundStart(length, gA, gB) ==
    [turn |-> 0, length |-> length,
     history |-> Zeros(length), historyFlipped |-> Zeros(length),
     memA |-> None, memB |-> None, globA |-> gA, globB |-> gB,
     calls |-> << >>, ncalls |-> 0]

RoundStep(A, B, es, r) ==
    LET t    == es.turn
        cA   == Invoke(A, Snapshot(es.history, t), es.memA, es.globA, r[1])
        h1   == historyAfterCall(es.history, t, cA.arr)
        cB   == Invoke(B, Snapshot(es.historyFlipped, t), es.memB, es.globB, r[2])
        hf1  == historyAfterCall(es.historyFlipped, t, cB.arr)
        h2   == SetCell(SetCell(h1, 0, t, strategyMove(cA.move)),
                        1, t, strategyMove(cB.move))
        hf2  == SetCell(SetCell(hf1, 0, t, h2[2][t + 1]), 1, t, h2[1][t + 1])
    IN  [es EXCEPT !.turn = t + 1, !.history = h2, !.historyFlipped = hf2,
                   !.memA = cA.mem, !.memB = cB.mem,
                   !.globA = cA.glob, !.globB = cB.glob,
                   !.calls = << Call("A", "official", t, Snapshot(es.history, t),
                                     es.memA, cA, es.history, h1),
                                Call("B", "official", t, Snapshot(es.historyFlipped, t),
                                     es.memB, cB, es.historyFlipped, hf1) >>,
                   !.ncalls = es.ncalls + 2]

(***************************************************************************)
(* runDeterministic: one turn of the loop.  result is "running" inside the *)
(* loop, "False" after a return False, "complete" after the last turn.     *)
(***************************************************************************)
DetStart(detTurns, gA, gB) ==
    [turn |-> 0, length |-> detTurns,
     history |-> Zeros(detTurns), historyFlipped |-> Zeros(detTurns),
     memA |-> None, memB |-> None, memA2 |-> None, memB2 |-> None,
     globA |-> gA, globB |-> gB, result |-> "running",
     calls |-> << >>, ncalls |-> 0]

\* a probe call that is given the memory of the official chain
probeMemory_official(official, probe) == official

\* the memory the probe call of lines 195-196 is given: memoryA2, memoryB2
probeMemory(official, probe) == probe

\* an oracle that compares the probe move of player A only
movesAgree_playerA(moveA, moveA2, moveB, moveB2) ==
    strategyMove(moveA2) = strategyMove(moveA)

\* lines 198-201: neither test returns False
movesAgree(moveA, moveA2, moveB, moveB2) ==
    /\ strategyMove(moveA2) = strategyMove(moveA)
    /\ strategyMove(moveB2) = strategyMove(moveB)

DetStep(A, B, es, r) ==
    LET t    == es.turn
        cA   == Invoke(A, Snapshot(es.history, t), es.memA, es.globA, r[1])
        h1   == historyAfterCall(es.history, t, cA.arr)
        cB   == Invoke(B, Snapshot(es.historyFlipped, t), es.memB, es.globB, r[2])
        hf1  == historyAfterCall(es.historyFlipped, t, cB.arr)
        h2   == SetCell(SetCell(h1, 0, t, strategyMove(cA.move)),
                        1, t, strategyMove(cB.move))
        cA2  == Invoke(A, Snapshot(h2, t), probeMemory(es.memA, es.memA2),
                       cA.glob, r[3])
        h3   == historyAfterCall(h2, t, cA2.arr)
        cB2  == Invoke(B, Snapshot(hf1, t), probeMemory(es.memB, es.memB2),
                       cB.glob, r[4])
        hf2  == historyAfterCall(hf1, t, cB2.arr)
        agree == movesAgree(cA.move, cA2.move, cB.move, cB2.move)
        hf3  == SetCell(SetCell(hf2, 0, t, h3[2][t + 1]), 1, t, h3[1][t + 1])
    IN  [es EXCEPT !.turn = IF agree THEN t + 1 ELSE t,
                   !.history = h3,
                   !.historyFlipped = IF agree THEN hf3 ELSE hf2,
                   !.memA = cA.mem, !.memB = cB.mem,
                   !.memA2 = cA2.mem, !.memB2 = cB2.mem,
                   !.globA = cA2.glob, !.globB = cB2.glob,
                   !.result = IF ~agree THEN "False"
                              ELSE IF t + 1 = es.length THEN "complete"
                              ELSE "running",
                   !.calls = << Call("A", "official", t, Snapshot(es.history, t),
                                     es.memA, cA, es.history, h1),
                                Call("B", "official", t, Snapshot(es.historyFlipped, t),
                                     es.memB, cB, es.historyFlipped, hf1),
                                Call("A", "probe", t, Snapshot(h2, t),
                                     probeMemory(es.memA, es.memA2), cA2, h2, h3),
                                Call("B", "probe", t, Snapshot(hf1, t),
                                     probeMemory(es.memB, es.memB2), cB2, hf1, hf2) >>,
                   !.ncalls = es.ncalls + 4]

(***************************************************************************)
(* Exact arithmetic: a rational is <<numerator, denominator>>              *)
(***************************************************************************)
RECURSIVE Gcd(_, _)
Gcd(a, b) == IF b = 0 THEN a ELSE Gcd(b, a % b)

Lcm(a, b) == (a \div Gcd(a, b)) * b

Reduce(q) == LET g == Gcd(q[1], q[2]) IN <<q[1] \div g, q[2] \div g>>

RatAdd(p, q) == Reduce(<<p[1] * q[2] + q[1] * p[2], p[2] * q[2]>>)

RatDiv(p, q) == Reduce(<<p[1] * q[2], p[2] * q[1]>>)

RECURSIVE RatSum(_)
RatSum(qs) == IF qs = << >> THEN <<0, 1>> ELSE RatAdd(Head(qs), RatSum(Tail(qs)))

RECURSIVE Factorial(_)
Factorial(n) == IF n <= 1 THEN 1 ELSE n * Factorial(n - 1)

RECURSIVE SeqSum(_)
SeqSum(xs) == IF xs = << >> THEN 0 ELSE Head(xs) + SeqSum(Tail(xs))

(***************************************************************************)
(* turnChance and the table turnChances, for a given --det-turns           *)
(***************************************************************************)
RECURSIVE turnChance(_, _)
turnChance(x, summing) ==
    IF x = 0 THEN <<1, HAZARD_INV>>
    ELSE LET S == turnChance(x - 1, TRUE) IN
         IF summing
         THEN RatAdd(<<S[2] - S[1], S[2] * HAZARD_INV>>, S)
         ELSE Reduce(<<S[2] - S[1], S[2] * HAZARD_INV>>)

\* the list before normalisation: turnChance(i) for i in range(detTurns - 199)
rawTurnChances(detTurns) ==
    [i \in 1..(detTurns - (MIN_TURNS - 1)) |-> turnChance(i - 1, FALSE)]

\* turnChances = [i / chancesSum for i in turnChances]
turnChances(detTurns) ==
    LET raw == rawTurnChances(detTurns)
        chancesSum == RatSum(raw)
    IN  [i \in 1..Len(raw) |-> RatDiv(raw[i], chancesSum)]

(***************************************************************************)
(* The scale of the scores: every score the model computes is a multiple   *)
(* of 1/ScoreDen                                                           *)
(***************************************************************************)
ScoreDenominators ==
    GameLengths \cup
    UNION { { (MIN_TURNS + i - 1) * turnChances(d)[i][2] :
                i \in 1..(d - (MIN_TURNS - 1)) } : d \in DetTurnsChoices }

RECURSIVE LcmOf(_)
LcmOf(S) == IF S = {} THEN 1
            ELSE LET x == CHOOSE y \in S : TRUE IN Lcm(x, LcmOf(S \ {x}))

ScoreDen == LcmOf(ScoreDenominators) * Factorial(MaxNumRuns)

(***************************************************************************)
(* tallyRoundScores and the scoring loops of runDeterministic              *)
(***************************************************************************)
\* the sum of the payoffs of turns lo..hi (1-based) of history, for row `row`
RECURSIVE PayoffRange(_, _, _, _)
PayoffRange(history, row, lo, hi) ==
    IF lo > hi THEN 0
    ELSE IF lo = hi THEN Points(history[row][lo], history[3 - row][lo])
    ELSE LET mid == (lo + hi) \div 2 IN
         PayoffRange(history, row, lo, mid) + PayoffRange(history, row, mid + 1, hi)

\* the sum of the payoffs of the first n turns
PayoffSum(history, row, n) == PayoffRange(history, row, 1, n)

tallyRoundScores(history) ==
    LET roundLength == Len(history[1]) IN
    << PayoffSum(history, 1, roundLength) * (ScoreDen \div roundLength),
       PayoffSum(history, 2, roundLength) * (ScoreDen \div roundLength) >>

\* totals that give no weight to the game of exactly 200 turns
RECURSIVE detTotal_from200(_, _, _, _)
detTotal_from200(history, row, tc, turn) ==
    IF turn < MIN_TURNS THEN 0
    ELSE detTotal_from200(history, row, tc, turn - 1)
         + PayoffSum(history, row, turn + 1)
           * tc[turn - (MIN_TURNS - 2)][1]
           * (ScoreDen \div ((turn + 1) * tc[turn - (MIN_TURNS - 2)][2]))

\* totals[row] after the loop `for turn in range(199, DETERMINISTIC_TURNS)`
RECURSIVE detTotal(_, _, _, _)
detTotal(history, row, tc, turn) ==
    IF turn < MIN_TURNS - 1 THEN 0
    ELSE detTotal(history, row, tc, turn - 1)
         + PayoffSum(history, row, turn + 1)
           * tc[turn - (MIN_TURNS - 2)][1]
           * (ScoreDen \div ((turn + 1) * tc[turn - (MIN_TURNS - 2)][2]))

detTotals(history) ==
    LET detTurns == Len(history[1])
        tc == turnChances(detTurns)
    IN  << detTotal(history, 1, tc, detTurns - 1),
           detTotal(history, 2, tc, detTurns - 1) >>

(***************************************************************************)
(* Whole runs of the two loops.  The loops are unrolled by halving, which  *)
(* keeps the evaluation shallow (the test of `half` makes TLC evaluate the *)
(* first half before the second); the result is the set of states the     *)
(* loop can end in, one per outcome of the random source.                  *)
(***************************************************************************)
RECURSIVE DetTurns(_, _, _, _)
DetTurns(A, B, S, n) ==
    IF n = 0 THEN S
    ELSE IF n = 1
    THEN UNION { IF es.result # "running" THEN {es}
                 ELSE { DetStep(A, B, es, r) : r \in Draws4(A, B, es.turn) } : es \in S }
    ELSE LET half == DetTurns(A, B, S, n \div 2) IN
         IF half = {} THEN {} ELSE DetTurns(A, B, half, n - (n \div 2))

\* runDeterministic(moduleA, moduleB) up to the scoring
runDeterministic(A, B, detTurns, gA, gB) ==
    DetTurns(A, B, {DetStart(detTurns, gA, gB)}, detTurns)

RECURSIVE RoundTurns(_, _, _, _)
RoundTurns(A, B, S, n) ==
    IF n = 0 THEN S
    ELSE IF n = 1
    THEN UNION { { RoundStep(A, B, es, r) : r \in Draws2(A, B, es.turn) } : es \in S }
    ELSE LET half == RoundTurns(A, B, S, n \div 2) IN
         IF half = {} THEN {} ELSE RoundTurns(A, B, half, n - (n \div 2))

\* runRound(moduleA, moduleB), for every LENGTH_OF_GAME the model draws
runRound(A, B, gA, gB) ==
    UNION { RoundTurns(A, B, {RoundStart(T, gA, gB)}, T) : T \in GameLengths }

(***************************************************************************)
(* statistics.stdev is not computed: a standard deviation is the list it   *)
(* is taken of, and 0 is the value the source substitutes for it.          *)
(***************************************************************************)
\* statistics.stdev called whatever the number of scores
stdevOf_unguarded(allScores) == [zero |-> FALSE, of |-> allScores]

stdevOf(allScores) ==
    IF Len(allScores) > 1 THEN [zero |-> FALSE, of |-> allScores]
    ELSE [zero |-> TRUE, of |-> << >>]

mean(allScores) == SeqSum(allScores) \div Len(allScores)

(***************************************************************************)
(* The outcomes of runDeterministic (with its totals) and of runRound      *)
(* followed by tallyRoundScores, for every pair, computed once.  A module  *)
(* state other than 0 only exists for "firstCall".                         *)
(***************************************************************************)
Globs(s) == IF s = "firstCall" THEN {0, 1} ELSE {0}

Pairs == { q \in Strategies \X Strategies : q[1] # q[2] }

DetTable ==
    UNION { UNION { { << <<q[1], q[2], d, g[1], g[2]>>,
                         [result |-> es.result, history |-> es.history,
                          totals |-> IF es.result = "complete"
                                     THEN detTotals(es.history) ELSE << >>,
                          globA |-> es.globA, globB |-> es.globB,
                          ncalls |-> es.ncalls] >>
                      : es \in runDeterministic(q[1], q[2], d, g[1], g[2]) }
                    : g \in Globs(q[1]) \X Globs(q[2]) }
            : q \in Pairs, d \in DetTurnsChoices }

RoundTable ==
    UNION { UNION { { << <<q[1], q[2], g[1], g[2]>>,
                         [history |-> es.history,
                          scores |-> tallyRoundScores(es.history),
                          globA |-> es.globA, globB |-> es.globB,
                          ncalls |-> es.ncalls] >>
                      : es \in runRound(q[1], q[2], g[1], g[2]) }
                    : g \in Globs(q[1]) \X Globs(q[2]) }
            : q \in Pairs }

detOutcomes(A, B, detTurns, gA, gB) ==
    { e[2] : e \in { f \in DetTable : f[1] = <<A, B, detTurns, gA, gB>> } }

roundOutcomes(A, B, gA, gB) ==
    { e[2] : e \in { f \in RoundTable : f[1] = <<A, B, gA, gB>> } }

(***************************************************************************)
(* runRounds on a cache miss (lines 268-300): the set of its outcomes.     *)
(* An accumulator acc holds allScoresA, allScoresB, firstRoundHistory, the *)
(* module states and the number of strategy calls and of rounds.           *)
(***************************************************************************)
RECURSIVE sampleRounds(_, _, _, _)
sampleRounds(A, B, acc, n) ==
    IF n = 0 THEN {acc}
    ELSE UNION { sampleRounds(A, B,
                    [acc EXCEPT !.allScoresA = Append(@, ro.scores[1]),
                                !.allScoresB = Append(@, ro.scores[2]),
                                !.firstRoundHistory =
                                    IF acc.rounds = 0 THEN ro.history ELSE @,
                                !.globA = ro.globA, !.globB = ro.globB,
                                !.ncalls = @ + ro.ncalls,
                                !.rounds = @ + 1],
                    n - 1)
                 : ro \in roundOutcomes(A, B, acc.globA, acc.globB) }

computePair(A, B, numRuns, detTurns, gA, gB) ==
    UNION { IF d.result = "complete"
            THEN { [deterministic |-> TRUE,
                    allScoresA |-> << d.totals[1] >>,
                    allScoresB |-> << d.totals[2] >>,
                    firstRoundHistory |-> d.history,
                    globA |-> d.globA, globB |-> d.globB,
                    ncalls |-> d.ncalls, rounds |-> 0] }
            ELSE sampleRounds(A, B,
                    [deterministic |-> FALSE,
                     allScoresA |-> << >>, allScoresB |-> << >>,
                     firstRoundHistory |-> << >>,
                     globA |-> d.globA, globB |-> d.globB,
                     ncalls |-> d.ncalls, rounds |-> 0],
                    numRuns)
            : d \in detOutcomes(A, B, detTurns, gA, gB) }

\* the PairResult of an outcome: what runRounds returns and inserts
PairResult(o) ==
    [avgScoreA |-> mean(o.allScoresA), avgScoreB |-> mean(o.allScoresB),
     stdevA |-> stdevOf(o.allScoresA), stdevB |-> stdevOf(o.allScoresB),
     firstRoundHistory |-> o.firstRoundHistory]

(***************************************************************************)
(* The tournament: inputs                                                  *)
(***************************************************************************)
\* args.processes: the size of the pool
NumProcesses == 2

Workers == 1..NumProcesses

\* the strategy files a folder listing can hold
TournamentStrategies == {"alwaysCooperate", "alwaysDefect", "grimTrigger", "firstCall"}

Range(f) == { f[i] : i \in DOMAIN f }

\* the sequences without repetition over S of length at most n
RECURSIVE Listings(_, _)
Listings(S, n) ==
    IF n = 0 THEN { << >> }
    ELSE LET shorter == Listings(S, n - 1) IN
         shorter \cup { Append(l, e) : l \in shorter, e \in S }

FolderListings ==
    { l \in Listings(TournamentStrategies, MaxStrategies) :
        Cardinality(Range(l)) = Len(l) }

\* args.strategies: None (the empty sequence here) or a list of one or two
\* names, one of which may name no file.  Only membership in the list is
\* read, so a list of two is given in one order.
StrategyNames ==
    <<"alwaysCooperate", "alwaysDefect", "grimTrigger", "firstCall", "missing">>

StrategyArgs ==
    { << >> } \cup { <<StrategyNames[a]>> : a \in DOMAIN StrategyNames }
              \cup { <<StrategyNames[q[1]], StrategyNames[q[2]]>> :
                        q \in { r \in (DOMAIN StrategyNames) \X (DOMAIN StrategyNames) :
                                  r[1] <= r[2] } }

ArgsChoices ==
    [strategies : StrategyArgs, cache : BOOLEAN, delete_cache : BOOLEAN,
     num_runs : 1..MaxNumRuns, det_turns : DetTurnsChoices]

(***************************************************************************)
(* State                                                                   *)
(***************************************************************************)
VARIABLES
    args,           \* the parsed command line
    listing,        \* the strategy files, in the order os.listdir gives them
    runNo,          \* how many times the program has been started
    pc,             \* the coordinator: "start", "pool", "rank", "done", "error"
    STRATEGY_LIST, scoreKeeper, combinations,
    tasks,          \* imap's tasks, one per combination, in dispatch order
    workers,        \* the pool's processes
    cacheStore,     \* the cache file: pair key -> entry
    lock,           \* the holder of the pool's lock, 0 when free
    hits, consumed, allResults, strategyTimes,
    rankings, summary,
    inserts,        \* history variable: cache inserts of this run, per key
    engine          \* one runRounds on a cache miss, turn by turn

vars == << args, listing, runNo, pc, STRATEGY_LIST, scoreKeeper, combinations,
           tasks, workers, cacheStore, lock, hits, consumed, allResults,
           strategyTimes, rankings, summary, inserts, engine >>

NUM_RUNS == args.num_runs
DETERMINISTIC_TURNS == args.det_turns

\* sys.modules of a fresh worker process: no strategy module is loaded
FreshModules == [s \in Strategies |-> [loaded |-> FALSE, glob |-> 0]]

IdleWorker == [task |-> 0, phase |-> "idle", modules |-> FreshModules]

EmptyFcn == [k \in {} |-> 0]

\* the runs of the full tournament: the whole population plays, over the
\* files of three of the strategies
CoreStrategies == {"alwaysCooperate", "alwaysDefect", "firstCall"}

RunArgs == { a \in ArgsChoices : a.strategies = << >> }

\* the first run fills the cache, for the whole population or for the
\* pairings of one strategy
FirstRunArgs ==
    { a \in ArgsChoices : /\ a.cache /\ ~a.delete_cache
                          /\ a.strategies \in { << >>, <<"alwaysDefect">> } }

\* no runRounds is followed turn by turn
EngineIdle == [phase |-> "idle"]

\* the coordinator before runFullPairingTournament is called
NotStarted ==
    /\ runNo = 1
    /\ pc = "start"
    /\ STRATEGY_LIST = << >>
    /\ scoreKeeper = EmptyFcn
    /\ combinations = << >>
    /\ tasks = << >>
    /\ workers = [w \in Workers |-> IdleWorker]
    /\ cacheStore = EmptyFcn
    /\ lock = 0
    /\ hits = 0
    /\ consumed = 0
    /\ allResults = << >>
    /\ strategyTimes = EmptyFcn
    /\ rankings = << >>
    /\ summary = << >>
    /\ inserts = EmptyFcn

Init ==
    /\ args \in FirstRunArgs
    /\ listing \in { l \in FolderListings : Range(l) \subseteq CoreStrategies }
    /\ engine = EngineIdle
    /\ NotStarted

(***************************************************************************)
(* runFullPairingTournament, lines 323-364: up to the creation of the pool *)
(***************************************************************************)
\* [strategy for strategy in STRATEGY_LIST if strategy in args.strategies]
filterStrategies(list, wanted) == SelectSeq(list, LAMBDA st : st \in Range(wanted))

eligibleStrategies(list, wanted) ==
    IF Len(wanted) > 1 THEN filterStrategies(list, wanted) ELSE list

\* list(itertools.combinations(STRATEGY_LIST, r=2))
RECURSIVE combinationsFrom(_, _)
combinationsFrom(list, i) ==
    IF i >= Len(list) THEN << >>
    ELSE [j \in 1..(Len(list) - i) |-> <<list[i], list[i + j]>>]
         \o combinationsFrom(list, i + 1)

\* every ordered pair of two distinct positions: the combinations, then
\* each of them reversed
itertoolsCombinations_permutations(list) ==
    LET combs == combinationsFrom(list, 1) IN
    combs \o [k \in 1..Len(combs) |-> <<combs[k][2], combs[k][1]>>]

itertoolsCombinations(list) == combinationsFrom(list, 1)

\* a filter that keeps a pair only when the requested strategy is its first
singleFilter_first(combs, wanted) ==
    IF Len(wanted) = 1
    THEN SelectSeq(combs, LAMBDA pair : pair[1] = wanted[1])
    ELSE combs

\* [pair for pair in combinations if pair[0] == s or pair[1] == s]
singleFilter(combs, wanted) ==
    IF Len(wanted) = 1
    THEN SelectSeq(combs, LAMBDA pair : pair[1] = wanted[1] \/ pair[2] = wanted[1])
    ELSE combs

dispatchedCombinations(list, wanted) ==
    singleFilter(itertoolsCombinations(list), wanted)

QueuedTask == [status |-> "queued", result |-> << >>, trace |-> << >>]

Start ==
    /\ pc = "start"
    /\ LET list == eligibleStrategies(listing, args.strategies)
           combs == dispatchedCombinations(list, args.strategies)
       IN  /\ cacheStore' = IF args.delete_cache THEN EmptyFcn ELSE cacheStore
           /\ STRATEGY_LIST' = list
           /\ IF Len(list) < 2
              THEN /\ pc' = "error"
                   /\ UNCHANGED << scoreKeeper, combinations, tasks, strategyTimes >>
              ELSE /\ pc' = IF Len(combs) = 0 THEN "rank" ELSE "pool"
                   /\ scoreKeeper' = [st \in Range(list) |-> 0]
                   /\ strategyTimes' = [st \in Range(list) |-> 0]
                   /\ combinations' = combs
                   /\ tasks' = [i \in 1..Len(combs) |-> QueuedTask]
    /\ UNCHANGED << engine, args, listing, runNo, workers, lock, hits, consumed,
                    allResults, rankings, summary, inserts >>

(***************************************************************************)
(* The cache backend (module cache): a store from pair keys to entries,    *)
(* and the pool's lock, held from the get to the close of one runRounds.   *)
(***************************************************************************)
cacheKey(pair) == pair

cacheHas(store, pair) == cacheKey(pair) \in DOMAIN store

cacheGet(store, pair) == store[cacheKey(pair)]

cacheInsert(store, pair, entry) ==
    [k \in DOMAIN store \cup {cacheKey(pair)} |->
        IF k = cacheKey(pair) THEN entry ELSE store[k]]

lockFree == lock = 0

(***************************************************************************)
(* The pool: a worker takes the next task of imap's queue                  *)
(***************************************************************************)
\* a queue that never moves past its first task
nextQueued_first == CHOOSE i \in DOMAIN tasks : \A j \in DOMAIN tasks : i <= j

nextQueued == CHOOSE i \in DOMAIN tasks :
                 /\ tasks[i].status = "queued"
                 /\ \A j \in DOMAIN tasks : j < i => tasks[j].status # "queued"

\* a pool that hands out a task again while it is running, to a runRounds
\* that does not look in the cache
Take_again(w) ==
    /\ pc = "pool"
    /\ workers[w].phase = "idle"
    /\ \E i \in DOMAIN tasks : tasks[i].status # "done"
    /\ LET i == CHOOSE j \in DOMAIN tasks : tasks[j].status # "done" IN
       /\ workers' = [workers EXCEPT ![w].task = i, ![w].phase = "miss"]
       /\ tasks' = [tasks EXCEPT ![i].status = "running"]
    /\ UNCHANGED << engine, args, listing, runNo, pc, STRATEGY_LIST, scoreKeeper,
                    combinations, cacheStore, lock, hits, consumed, allResults,
                    strategyTimes, rankings, summary, inserts >>

Take(w) ==
    /\ pc = "pool"
    /\ workers[w].phase = "idle"
    /\ \E i \in DOMAIN tasks : tasks[i].status = "queued"
    \* without the cache runRounds starts at line 268
    /\ workers' = [workers EXCEPT ![w].task = nextQueued,
                                  ![w].phase = IF args.cache THEN "called" ELSE "miss"]
    /\ tasks' = [tasks EXCEPT ![nextQueued].status = "running"]
    /\ UNCHANGED << engine, args, listing, runNo, pc, STRATEGY_LIST, scoreKeeper,
                    combinations, cacheStore, lock, hits, consumed, allResults,
                    strategyTimes, rankings, summary, inserts >>

(***************************************************************************)
(* runRounds(pair), lines 259-314                                          *)
(***************************************************************************)
\* importlib.import_module(name): the module in sys.modules if it is there,
\* else the module loaded and run, which puts it there
importModule(modules, name) ==
    IF modules[name].loaded THEN modules
    ELSE [modules EXCEPT ![name] = [loaded |-> TRUE, glob |-> 0]]

\* the elapsed times endTime - startTime the model draws from
ElapsedTimes == {1}

\* a hit that returns the two mean scores the wrong way round
hitResult_swapped(entry) ==
    [cached |-> TRUE,
     avgScoreA |-> entry.avgScoreB, avgScoreB |-> entry.avgScoreA,
     stdevA |-> entry.stdevA, stdevB |-> entry.stdevB,
     firstRoundHistory |-> entry.firstRoundHistory,
     pairTime |-> 0]

\* return True, *r, 0
hitResult(entry) ==
    [cached |-> TRUE,
     avgScoreA |-> entry.avgScoreA, avgScoreB |-> entry.avgScoreB,
     stdevA |-> entry.stdevA, stdevB |-> entry.stdevB,
     firstRoundHistory |-> entry.firstRoundHistory,
     pairTime |-> 0]

\* return False, avgScoreA, ..., endTime - startTime
missResult(o, elapsed) ==
    [cached |-> FALSE,
     avgScoreA |-> PairResult(o).avgScoreA, avgScoreB |-> PairResult(o).avgScoreB,
     stdevA |-> PairResult(o).stdevA, stdevB |-> PairResult(o).stdevB,
     firstRoundHistory |-> PairResult(o).firstRoundHistory,
     pairTime |-> elapsed]

\* what the model records of one runRounds besides its result
Trace(pair, gA, gB, ncalls, rounds, deterministic, inserted) ==
    [pair |-> pair, globA |-> gA, globB |-> gB, invoked |-> ncalls > 0,
     rounds |-> rounds, deterministic |-> deterministic, inserted |-> inserted]

\* lines 261-266 when the cache holds the pair
runRoundsHit(w) ==
    /\ workers[w].phase = "called"
    /\ args.cache
    /\ lockFree
    /\ LET i == workers[w].task
           pair == combinations[i]
       IN  /\ cacheHas(cacheStore, pair)
           /\ tasks' = [tasks EXCEPT ![i] =
                  [status |-> "done",
                   result |-> hitResult(cacheGet(cacheStore, pair)),
                   trace |-> Trace(pair, 0, 0, 0, 0, FALSE, FALSE)]]
           /\ workers' = [workers EXCEPT ![w].task = 0, ![w].phase = "idle"]
    /\ UNCHANGED << engine, args, listing, runNo, pc, STRATEGY_LIST, scoreKeeper,
                    combinations, cacheStore, lock, hits, consumed, allResults,
                    strategyTimes, rankings, summary, inserts >>

\* lines 261-264 when the cache does not hold the pair
runRoundsMiss(w) ==
    /\ workers[w].phase = "called"
    /\ args.cache
    /\ lockFree
    /\ ~cacheHas(cacheStore, combinations[workers[w].task])
    /\ lock' = w
    /\ workers' = [workers EXCEPT ![w].phase = "miss"]
    /\ UNCHANGED << engine, args, listing, runNo, pc, STRATEGY_LIST, scoreKeeper,
                    combinations, tasks, cacheStore, hits, consumed, allResults,
                    strategyTimes, rankings, summary, inserts >>

\* lines 268-314
runRoundsCompute(w) ==
    /\ workers[w].phase = "miss"
    /\ LET i == workers[w].task
           pair == combinations[i]
           mods == importModule(importModule(workers[w].modules, pair[1]), pair[2])
           gA == mods[pair[1]].glob
           gB == mods[pair[2]].glob
       IN  \E o \in computePair(pair[1], pair[2], NUM_RUNS, DETERMINISTIC_TURNS, gA, gB),
              elapsed \in ElapsedTimes :
             /\ tasks' = [tasks EXCEPT ![i] =
                    [status |-> "done",
                     result |-> missResult(o, elapsed),
                     trace |-> Trace(pair, gA, gB, o.ncalls, o.rounds,
                                     o.deterministic, args.cache)]]
             /\ workers' = [workers EXCEPT
                    ![w].task = 0, ![w].phase = "idle",
                    ![w].modules = [mods EXCEPT ![pair[1]].glob = o.globA,
                                                ![pair[2]].glob = o.globB]]
             /\ IF args.cache
                THEN /\ cacheStore' = cacheInsert(cacheStore, pair, PairResult(o))
                     /\ inserts' = [k \in DOMAIN inserts \cup {cacheKey(pair)} |->
                                      IF k = cacheKey(pair)
                                      THEN (IF k \in DOMAIN inserts THEN inserts[k] ELSE 0) + 1
                                      ELSE inserts[k]]
                     /\ lock' = 0
                ELSE UNCHANGED << cacheStore, inserts, lock >>
    /\ UNCHANGED << engine, args, listing, runNo, pc, STRATEGY_LIST, scoreKeeper,
                    combinations, hits, consumed, allResults, strategyTimes,
                    rankings, summary >>

(***************************************************************************)
(* The coordinator's loop body, lines 366-411: the next result in dispatch *)
(* order, paired by zip with its combination                               *)
(***************************************************************************)
\* avgScoreA added to the second name of the pair and avgScoreB to the first
scoredNames_swapped(pair) == <<pair[2], pair[1]>>

\* the name scoreKeeper adds avgScoreA to, and the one it adds avgScoreB to
\* (lines 410-411)
scoredNames(pair) == pair

\* an iterator that yields a result as soon as any task has one
imapNext_anyDone ==
    IF \E j \in DOMAIN tasks : tasks[j].status = "done"
    THEN CHOOSE j \in DOMAIN tasks : tasks[j].status = "done"
    ELSE consumed + 1

\* the task whose result p.imap yields next: the next in dispatch order
imapNext == consumed + 1

Consume ==
    /\ pc = "pool"
    /\ consumed < Len(tasks)
    /\ tasks[imapNext].status = "done"
    /\ LET i == consumed + 1
           result == tasks[imapNext].result
           nameA == combinations[i][1]
           nameB == combinations[i][2]
           toA == scoredNames(combinations[i])[1]
           toB == scoredNames(combinations[i])[2]
           added == [scoreKeeper EXCEPT ![toA] = @ + result.avgScoreA]
       IN  /\ hits' = IF result.cached THEN hits + 1 ELSE hits
           /\ strategyTimes' = [strategyTimes EXCEPT ![nameA] = @ + result.pairTime,
                                                     ![nameB] = @ + result.pairTime]
           /\ allResults' = Append(allResults,
                  [playerA |-> [name |-> nameA, avgScore |-> result.avgScoreA,
                                stdev |-> result.stdevA,
                                history |-> result.firstRoundHistory[1]],
                   playerB |-> [name |-> nameB, avgScore |-> result.avgScoreB,
                                stdev |-> result.stdevB,
                                history |-> result.firstRoundHistory[2]]])
           /\ scoreKeeper' = [added EXCEPT ![toB] = @ + result.avgScoreB]
           /\ consumed' = i
           \* after the last result the with-block ends and the pool with it
           /\ pc' = IF i = Len(tasks) THEN "rank" ELSE "pool"
           /\ workers' = IF i = Len(tasks) THEN [w \in Workers |-> IdleWorker]
                         ELSE workers
    /\ UNCHANGED << engine, args, listing, runNo, STRATEGY_LIST, combinations, tasks,
                    cacheStore, lock, rankings, summary, inserts >>

(***************************************************************************)
(* The ranking, lines 418-447                                              *)
(***************************************************************************)
Permutations1(n) ==
    { f \in [1..n -> 1..n] : \A a, b \in 1..n : f[a] = f[b] => a = b }

\* np.argsort(scores), whose default sort is not stable: every order of
\* the indices that puts the scores in ascending order
argsort(scores) ==
    { f \in Permutations1(Len(scores)) :
        \A k \in 1..(Len(scores) - 1) : scores[f[k]] <= scores[f[k + 1]] }

\* the ranking read from its front: rankings[rank]
rankedIndex_ascending(ranks, rank) == ranks[rank]

\* the index written at rank `rank` (1-based): rankings[-1 - rank]
rankedIndex(ranks, rank) == ranks[Len(ranks) + 1 - rank]

Rank ==
    /\ pc = "rank"
    /\ LET scoresNumpy == [i \in 1..Len(STRATEGY_LIST) |-> scoreKeeper[STRATEGY_LIST[i]]]
       IN  \E ranks \in argsort(scoresNumpy) :
             /\ rankings' = ranks
             /\ summary' = [rank \in 1..Len(STRATEGY_LIST) |->
                              [rank |-> rank,
                               name |-> STRATEGY_LIST[rankedIndex(ranks, rank)],
                               score |-> scoresNumpy[rankedIndex(ranks, rank)]]]
    /\ pc' = "done"
    /\ UNCHANGED << engine, args, listing, runNo, STRATEGY_LIST, scoreKeeper, combinations,
                    tasks, workers, cacheStore, lock, hits, consumed, allResults,
                    strategyTimes, inserts >>

(***************************************************************************)
(* The program is started again, on the cache file the last run left       *)
(***************************************************************************)
NewRun ==
    /\ pc \in {"done", "error"}
    /\ runNo < MaxProgramRuns
    /\ runNo' = runNo + 1
    /\ args' \in RunArgs
    /\ pc' = "start"
    /\ STRATEGY_LIST' = << >>
    /\ scoreKeeper' = EmptyFcn
    /\ combinations' = << >>
    /\ tasks' = << >>
    /\ workers' = [w \in Workers |-> IdleWorker]
    /\ lock' = 0
    /\ hits' = 0
    /\ consumed' = 0
    /\ allResults' = << >>
    /\ strategyTimes' = EmptyFcn
    /\ rankings' = << >>
    /\ summary' = << >>
    /\ inserts' = EmptyFcn
    /\ UNCHANGED << engine, listing, cacheStore >>

Next ==
    \/ Start
    \/ \E w \in Workers : Take(w)
    \/ \E w \in Workers : runRoundsHit(w)
    \/ \E w \in Workers : runRoundsMiss(w)
    \/ \E w \in Workers : runRoundsCompute(w)
    \/ Consume
    \/ Rank
    \/ NewRun

Spec == Init /\ [][Next]_vars

\* The steps of a run.  The coordinator and the workers are processes the
\* operating system keeps running, and every strategy call returns: a run
\* that can take a step takes one.
RunStep ==
    \/ Start
    \/ \E w \in Workers : Take(w)
    \/ \E w \in Workers : runRoundsHit(w)
    \/ \E w \in Workers : runRoundsMiss(w)
    \/ \E w \in Workers : runRoundsCompute(w)
    \/ Consume
    \/ Rank

\* runs over three listings, the first with 1 run per pairing and 200
\* deterministic turns
InitLive ==
    /\ args \in { a \in FirstRunArgs : a.num_runs = 1 /\ a.det_turns = MIN_TURNS }
    /\ listing \in { <<"firstCall">>,
                     <<"alwaysCooperate", "alwaysDefect">>,
                     <<"alwaysCooperate", "firstCall", "alwaysDefect">> }
    /\ engine = EngineIdle
    /\ NotStarted

SpecLive == InitLive /\ [][Next]_vars /\ WF_vars(RunStep)

(***************************************************************************)
(* The scheduler alone: one run without the cache, over every listing and  *)
(* every --strategies                                                      *)
(***************************************************************************)
InitSched ==
    /\ args \in { a \in ArgsChoices : /\ ~a.cache /\ ~a.delete_cache
                                      /\ a.num_runs = 1 /\ a.det_turns = MIN_TURNS }
    /\ listing \in FolderListings
    /\ engine = EngineIdle
    /\ NotStarted

NextSched ==
    \/ Start
    \/ \E w \in Workers : Take(w)
    \/ \E w \in Workers : runRoundsCompute(w)
    \/ Consume
    \/ Rank

SpecSched == InitSched /\ [][NextSched]_vars

(***************************************************************************)
(* One runRounds on a cache miss in a fresh process, turn by turn          *)
(* (lines 268-300).  engine.es is the state of the loop that is running;   *)
(* playedA and playedB are history variables, the normalised official      *)
(* moves of the turns of that loop so far, and disagreed records whether   *)
(* a probe move of the last turn of runDeterministic differed from the     *)
(* official one.                                                           *)
(***************************************************************************)
tournament == << args, listing, runNo, pc, STRATEGY_LIST, scoreKeeper, combinations,
                 tasks, workers, cacheStore, lock, hits, consumed, allResults,
                 strategyTimes, rankings, summary, inserts >>

\* the pairs runRounds is followed on
RoundPairs == Pairs \cup { <<"diary", "alwaysCooperate">>, <<"alwaysDefect", "diary">> }

EngineStart(pair, detTurns) ==
    [phase |-> "runDeterministic", pair |-> pair,
     es |-> DetStart(detTurns, 0, 0),
     playedA |-> << >>, playedB |-> << >>, disagreed |-> FALSE,
     deterministic |-> "pending",
     allScoresA |-> << >>, allScoresB |-> << >>, firstRoundHistory |-> << >>,
     rounds |-> 0, result |-> << >>]

InitRound ==
    /\ args \in { a \in RunArgs : ~a.cache /\ ~a.delete_cache }
    /\ listing = << >>
    /\ engine \in { EngineStart(q, d) : q \in RoundPairs, d \in DetTurnsChoices }
    /\ engine.es.length = DETERMINISTIC_TURNS
    /\ NotStarted

\* one turn of the loop of runDeterministic, lines 189-204
runDeterministicTurn ==
    /\ engine.phase = "runDeterministic"
    /\ engine.es.result = "running"
    /\ \E r \in Draws4(engine.pair[1], engine.pair[2], engine.es.turn) :
         LET es2 == DetStep(engine.pair[1], engine.pair[2], engine.es, r) IN
         engine' = [engine EXCEPT
                      !.es = es2,
                      !.playedA = Append(@, es2.calls[1].move),
                      !.playedB = Append(@, es2.calls[2].move),
                      !.disagreed = \/ es2.calls[3].move # es2.calls[1].move
                                    \/ es2.calls[4].move # es2.calls[2].move]
    /\ UNCHANGED tournament

\* runDeterministic returns (lines 199, 201, 220) and runRounds takes its
\* branch (lines 279-284)
runDeterministicReturn ==
    /\ engine.phase = "runDeterministic"
    /\ engine.es.result # "running"
    /\ engine' =
         IF engine.es.result = "complete"
         THEN [engine EXCEPT
                 !.phase = "mean", !.deterministic = "totals",
                 !.allScoresA = << detTotals(engine.es.history)[1] >>,
                 !.allScoresB = << detTotals(engine.es.history)[2] >>,
                 !.firstRoundHistory = engine.es.history]
         ELSE [engine EXCEPT !.phase = "sampling", !.deterministic = "False"]
    /\ UNCHANGED tournament

\* runRound is called, lines 285 and 140-149
runRoundStart ==
    /\ engine.phase = "sampling"
    /\ engine.rounds < NUM_RUNS
    /\ \E LENGTH_OF_GAME \in GameLengths :
         engine' = [engine EXCEPT
                      !.phase = "runRound",
                      !.es = RoundStart(LENGTH_OF_GAME, engine.es.globA, engine.es.globB),
                      !.playedA = << >>, !.playedB = << >>]
    /\ UNCHANGED tournament

\* one turn of the loop of runRound, lines 151-158
runRoundTurn ==
    /\ engine.phase = "runRound"
    /\ engine.es.turn < engine.es.length
    /\ \E r \in Draws2(engine.pair[1], engine.pair[2], engine.es.turn) :
         LET es2 == RoundStep(engine.pair[1], engine.pair[2], engine.es, r) IN
         engine' = [engine EXCEPT
                      !.es = es2,
                      !.playedA = Append(@, es2.calls[1].move),
                      !.playedB = Append(@, es2.calls[2].move)]
    /\ UNCHANGED tournament

\* runRound returns and its scores are appended, lines 160 and 286-290
runRoundReturn ==
    /\ engine.phase = "runRound"
    /\ engine.es.turn = engine.es.length
    /\ engine' = [engine EXCEPT
                    !.phase = "sampling",
                    !.allScoresA = Append(@, tallyRoundScores(engine.es.history)[1]),
                    !.allScoresB = Append(@, tallyRoundScores(engine.es.history)[2]),
                    !.firstRoundHistory =
                        IF engine.rounds = 0 THEN engine.es.history ELSE @,
                    !.rounds = @ + 1]
    /\ UNCHANGED tournament

\* lines 292-314
runRoundsReturn ==
    /\ \/ engine.phase = "mean"
       \/ engine.phase = "sampling" /\ engine.rounds = NUM_RUNS
    /\ engine' = [engine EXCEPT !.phase = "returned", !.result = PairResult(engine)]
    /\ UNCHANGED tournament

NextRound ==
    \/ runDeterministicTurn
    \/ runDeterministicReturn
    \/ runRoundStart
    \/ runRoundTurn
    \/ runRoundReturn
    \/ runRoundsReturn

SpecRound == InitRound /\ [][NextRound]_vars

(***************************************************************************)
(* The moves a strategy can hand back, and what lines 155-156 store of     *)
(* them, turn by turn.  The strategy is any code at all, so the value is   *)
(* any string or any integer; the history is an integer array.             *)
(***************************************************************************)
\* the number of turns the stored moves are followed for
MoveTurns == 2

ReturnedMoves ==
    { StrMove(str) : str \in {"defect", "tell truth", "cooperate", "stay silent", ""} }
    \cup { IntMove(i) : i \in -1..2 }

\* a command line with the cache off, for the runs that never read it
PlainArgs == CHOOSE a \in RunArgs : ~a.cache /\ ~a.delete_cache

InitMoves ==
    /\ args = PlainArgs
    /\ listing = << >>
    /\ engine = [phase |-> "moves", turn |-> 0,
                 history |-> Zeros(MoveTurns), historyFlipped |-> Zeros(MoveTurns)]
    /\ NotStarted

\* lines 155-158 for the moves playerAmove and playerBmove of one turn
storeMoves ==
    /\ engine.phase = "moves"
    /\ engine.turn < MoveTurns
    /\ \E playerAmove, playerBmove \in ReturnedMoves :
         LET history == SetCell(SetCell(engine.history, 0, engine.turn,
                                        strategyMove(playerAmove)),
                                1, engine.turn, strategyMove(playerBmove))
         IN  engine' = [engine EXCEPT
                          !.turn = @ + 1,
                          !.history = history,
                          !.historyFlipped =
                              SetCell(SetCell(@, 0, engine.turn,
                                              history[2][engine.turn + 1]),
                                      1, engine.turn, history[1][engine.turn + 1])]
    /\ UNCHANGED tournament

SpecMoves == InitMoves /\ [][storeMoves]_vars

(***************************************************************************)
(* Python's float: IEEE-754 binary64, round to nearest, ties to even.      *)
(* A natural number of any size is the sequence of its digits in base      *)
(* LimbBase, lowest digit first, without leading zero digits; a            *)
(* non-negative double is [m, e] and stands for m * 2^e, where m is zero   *)
(* (the empty sequence) or has exactly MantissaBits bits.  The tables and  *)
(* the scores of the program are far from the subnormal and the overflow   *)
(* range, so e is unbounded.                                               *)
(***************************************************************************)
LimbBits == 14

LimbBase == 2 ^ LimbBits

MantissaBits == 53

IntMax(S) == CHOOSE i \in S : \A j \in S : j <= i

IntBitLen(k) == CHOOSE n \in 0..(2 * LimbBits + 2) :
                   k < 2 ^ n /\ (n = 0 \/ k >= 2 ^ (n - 1))

\* the digit i of a, 0 beyond its length
Limb(a, i) == IF i \in 1..Len(a) THEN a[i] ELSE 0

BNorm(a) ==
    LET used == {i \in 1..Len(a) : a[i] # 0} IN
    SubSeq(a, 1, IF used = {} THEN 0 ELSE IntMax(used))

BFromInt(k) == BNorm(<< k % LimbBase, (k \div LimbBase) % LimbBase,
                        k \div (LimbBase * LimbBase) >>)

\* for a < LimbBase * LimbBase
BToInt(a) == Limb(a, 1) + Limb(a, 2) * LimbBase

\* digit by digit, with the carry into digit i looked up from the digits
\* below it
BAdd(a, b) ==
    LET s(i) == Limb(a, i) + Limb(b, i)
        carry(i) == \E j \in 1..(i - 1) :
                       /\ s(j) >= LimbBase
                       /\ \A k \in (j + 1)..(i - 1) : s(k) = LimbBase - 1
    IN  BNorm([i \in 1..(IntMax({Len(a), Len(b)}) + 1) |->
                  (s(i) + (IF carry(i) THEN 1 ELSE 0)) % LimbBase])

\* a - b, for a >= b
BSub(a, b) ==
    LET d(i) == Limb(a, i) - Limb(b, i)
        borrow(i) == \E j \in 1..(i - 1) :
                        /\ d(j) < 0
                        /\ \A k \in (j + 1)..(i - 1) : d(k) = 0
    IN  BNorm([i \in 1..Len(a) |->
                  (d(i) - (IF borrow(i) THEN 1 ELSE 0) + LimbBase) % LimbBase])

\* 1, 0 or -1 as a is greater than, equal to or less than b
BCmp(a, b) ==
    LET differ == {i \in 1..IntMax({Len(a), Len(b)}) : Limb(a, i) # Limb(b, i)} IN
    IF differ = {} THEN 0
    ELSE IF Limb(a, IntMax(differ)) > Limb(b, IntMax(differ)) THEN 1
    ELSE -1

\* a * k, for k <= LimbBase
BMulSmall(a, k) ==
    BAdd([i \in 1..Len(a) |-> (a[i] * k) % LimbBase],
         [i \in 1..(Len(a) + 1) |-> IF i = 1 THEN 0 ELSE (a[i - 1] * k) \div LimbBase])

\* a * LimbBase^n
BShlLimbs(a, n) == IF a = << >> THEN a ELSE [i \in 1..n |-> 0] \o a

RECURSIVE BMul(_, _)
BMul(a, b) ==
    IF a = << >> \/ b = << >> THEN << >>
    ELSE BAdd(BMulSmall(a, b[1]), BShlLimbs(BMul(a, Tail(b)), 1))

RECURSIVE BPow(_, _)
BPow(k, n) == IF n = 0 THEN <<1>> ELSE BMulSmall(BPow(k, n - 1), k)

\* a * 2^n and a \div 2^n
BShl(a, n) == BShlLimbs(BMulSmall(a, 2 ^ (n % LimbBits)), n \div LimbBits)

BShr(a, n) ==
    LET t == SubSeq(a, n \div LimbBits + 1, Len(a))
        r == n % LimbBits
    IN  BNorm([i \in 1..Len(t) |->
                  t[i] \div 2 ^ r + (Limb(t, i + 1) % 2 ^ r) * 2 ^ (LimbBits - r)])

BBitLen(a) == IF a = << >> THEN 0
              ELSE (Len(a) - 1) * LimbBits + IntBitLen(a[Len(a)])

\* the digit x \div d, for x < d * LimbBase: between the quotients of the
\* leading bits of x by those of d rounded up and down
BQuotDigit(x, d) ==
    LET cut == IntMax({0, BBitLen(d) - LimbBits})
        dt  == BToInt(BShr(d, cut))
        xt  == BToInt(BShr(x, cut))
    IN  CHOOSE q \in (xt \div (dt + 1))..IntMax({0, ((xt + 1) \div dt)}) :
           /\ q < LimbBase
           /\ BCmp(BMulSmall(d, q), x) <= 0
           /\ BCmp(BMulSmall(d, q + 1), x) > 0

\* one step of the long division of n by d: st is <<rem, q>>, i the digit
\* of n that is brought down
BDivStep(st, n, d, i) ==
    LET x == BNorm(<<n[i]>> \o st[1])
        q == BQuotDigit(x, d)
    IN  << BSub(x, BMulSmall(d, q)), BNorm(<<q>> \o st[2]) >>

\* <<rem, q>> once the digits i, i-1, .., 1 of n are brought down
RECURSIVE BDivLoop(_, _, _, _)
BDivLoop(st, n, d, i) ==
    IF Len(st) = 2 /\ i = 0 THEN st
    ELSE BDivLoop(BDivStep(st, n, d, i), n, d, i - 1)

\* << n \div d, n % d >>, for d # 0
BDivMod(n, d) ==
    IF Len(n) < Len(d) THEN << << >>, n >>
    ELSE LET st == BDivLoop(<< SubSeq(n, Len(n) - Len(d) + 2, Len(n)), << >> >>,
                            n, d, Len(n) - Len(d) + 1)
         IN  <<st[2], st[1]>>

FloatZero == [m |-> << >>, e |-> 0]

\* the double nearest to n * 2^e, ties to the even mantissa
RoundToDouble(n, e) ==
    IF n = << >> THEN FloatZero
    ELSE LET bits == BBitLen(n) IN
         IF bits <= MantissaBits
         THEN [m |-> BShl(n, MantissaBits - bits), e |-> e - (MantissaBits - bits)]
         ELSE LET shift == bits - MantissaBits
                  q     == BShr(n, shift)
                  half  == BCmp(BSub(n, BShl(q, shift)), BShl(<<1>>, shift - 1))
                  up    == half = 1 \/ (half = 0 /\ q[1] % 2 = 1)
                  r     == IF up THEN BAdd(q, <<1>>) ELSE q
              IN  IF BBitLen(r) > MantissaBits
                  THEN [m |-> BShr(r, 1), e |-> e + shift + 1]
                  ELSE [m |-> r, e |-> e + shift]

FloatOfInt(k) == RoundToDouble(BFromInt(k), 0)

FloatAdd(a, b) ==
    IF a.m = << >> THEN b
    ELSE IF b.m = << >> THEN a
    ELSE LET e == 0 - IntMax({0 - a.e, 0 - b.e}) IN
         RoundToDouble(BAdd(BShl(a.m, a.e - e), BShl(b.m, b.e - e)), e)

\* a - b, for a >= b
FloatSub(a, b) ==
    IF b.m = << >> THEN a
    ELSE LET e == 0 - IntMax({0 - a.e, 0 - b.e}) IN
         RoundToDouble(BSub(BShl(a.m, a.e - e), BShl(b.m, b.e - e)), e)

FloatMul(a, b) == RoundToDouble(BMul(a.m, b.m), a.e + b.e)

\* a / b for b # 0: the quotient of the mantissas to 4 * LimbBits more bits,
\* and a sticky bit for the remainder, are enough to round the exact quotient
FloatDiv(a, b) ==
    IF a.m = << >> THEN FloatZero
    ELSE LET qr == BDivMod(BShlLimbs(a.m, 4), b.m)
             sticky == IF qr[2] = << >> THEN << >> ELSE <<1>>
         IN  RoundToDouble(BAdd(BMulSmall(qr[1], 2), sticky),
                           a.e - b.e - (4 * LimbBits + 1))

FloatOne == FloatOfInt(1)

FloatHazardInv == FloatOfInt(HAZARD_INV)

\* turnChance in doubles: 1/40, (1-S)/40+S and (1-S)/40
RECURSIVE turnChance_float(_, _)
turnChance_float(x, summing) ==
    IF x = 0 THEN FloatDiv(FloatOne, FloatHazardInv)
    ELSE LET S == turnChance_float(x - 1, TRUE) IN
         IF summing
         THEN FloatAdd(FloatDiv(FloatSub(FloatOne, S), FloatHazardInv), S)
         ELSE FloatDiv(FloatSub(FloatOne, S), FloatHazardInv)

\* sum(xs): the additions from left to right, from the integer 0
RECURSIVE FloatSum(_)
FloatSum(xs) == IF xs = << >> THEN FloatZero
                ELSE FloatAdd(FloatSum(SubSeq(xs, 1, Len(xs) - 1)), xs[Len(xs)])

\* turnChances = [i / chancesSum for i in turnChances]
normalised_skipped(raw) == raw

normalised(raw) ==
    LET chancesSum == FloatSum(raw) IN
    [i \in 1..Len(raw) |-> FloatDiv(raw[i], chancesSum)]

(***************************************************************************)
(* The table turnChances and the scoring loops of runDeterministic in the  *)
(* program's own arithmetic, for a pair of strategies that each return one *)
(* move whatever the history (specification SpecFloat)                     *)
(***************************************************************************)
\* the largest --det-turns followed in doubles is MIN_TURNS + MaxExtraTurns
MaxExtraTurns == 6

FloatDetTurns == MIN_TURNS..(MIN_TURNS + MaxExtraTurns)

InitFloat ==
    /\ args \in { [PlainArgs EXCEPT !.det_turns = d] : d \in FloatDetTurns }
    /\ listing = << >>
    /\ engine = [phase |-> "table", turnChances |-> << >>]
    /\ NotStarted

\* turnChances.append(turnChance(i)), one pass of the loop of lines 172-173
appendTurnChance ==
    /\ engine.phase = "table"
    /\ Len(engine.turnChances) < DETERMINISTIC_TURNS - (MIN_TURNS - 1)
    /\ engine' = [engine EXCEPT
                    !.turnChances =
                        Append(@, turnChance_float(Len(engine.turnChances), FALSE))]
    /\ UNCHANGED tournament

\* chancesSum = sum(turnChances) and the division of every entry by it
normaliseTurnChances ==
    /\ engine.phase = "table"
    /\ Len(engine.turnChances) = DETERMINISTIC_TURNS - (MIN_TURNS - 1)
    /\ engine' = [phase |-> "built",
                  turnChances |-> normalised(engine.turnChances)]
    /\ UNCHANGED tournament

\* runDeterministic for two strategies that return moveA and moveB on every
\* turn: the history is constant, the probes agree, and the loop over
\* range(199) has added the payoffs of the first 199 turns
runDeterministicConstant ==
    /\ engine.phase \in {"built", "returned"}
    /\ \E moveA, moveB \in {0, 1} :
         engine' = [phase |-> "scoring",
                    turnChances |-> engine.turnChances,
                    moves |-> <<moveA, moveB>>,
                    turn |-> MIN_TURNS - 1,
                    scores |-> << (MIN_TURNS - 1) * Points(moveA, moveB),
                                  (MIN_TURNS - 1) * Points(moveB, moveA) >>,
                    totals |-> <<FloatZero, FloatZero>>]
    /\ UNCHANGED tournament

\* scores / (turn + 1) * turnChances[turn - 199], added to total
totalsAfterTurn(total, score, turn, tc) ==
    FloatAdd(total,
             FloatMul(FloatDiv(FloatOfInt(score), FloatOfInt(turn + 1)),
                      tc[turn - (MIN_TURNS - 2)]))

\* one pass of the loop `for turn in range(199, DETERMINISTIC_TURNS)`
scoreTurn ==
    /\ engine.phase = "scoring"
    /\ engine.turn < DETERMINISTIC_TURNS
    /\ LET scores == << engine.scores[1] + Points(engine.moves[1], engine.moves[2]),
                        engine.scores[2] + Points(engine.moves[2], engine.moves[1]) >>
       IN  engine' = [engine EXCEPT
                        !.turn = @ + 1,
                        !.scores = scores,
                        !.totals = << totalsAfterTurn(@[1], scores[1], engine.turn,
                                                      engine.turnChances),
                                      totalsAfterTurn(@[2], scores[2], engine.turn,
                                                      engine.turnChances) >>]
    /\ UNCHANGED tournament

\* return totals, history
returnTotals ==
    /\ engine.phase = "scoring"
    /\ engine.turn = DETERMINISTIC_TURNS
    /\ engine' = [engine EXCEPT !.phase = "returned"]
    /\ UNCHANGED tournament

NextFloat ==
    \/ appendTurnChance
    \/ normaliseTurnChances
    \/ runDeterministicConstant
    \/ scoreTurn
    \/ returnTotals

SpecFloat == InitFloat /\ [][NextFloat]_vars

(***************************************************************************)
(* Properties of the ranking and of the scores (specification Spec)        *)
(***************************************************************************)
\* the place of a name in STRATEGY_LIST
indexOf(name) == CHOOSE i \in DOMAIN STRATEGY_LIST : STRATEGY_LIST[i] = name

\* C1: the final ranking lists the strategies in descending order of
\* cumulative score, and of two strategies with equal cumulative score the
\* one earlier in STRATEGY_LIST has the better rank.
C1_RankingOrder ==
    pc = "done" =>
      \A a, b \in DOMAIN summary :
         a < b =>
           \/ summary[a].score > summary[b].score
           \/ /\ summary[a].score = summary[b].score
              /\ indexOf(summary[a].name) < indexOf(summary[b].name)

\* a finished run in which two strategies have the same cumulative score
C1_TieRanked ==
    /\ pc = "done"
    /\ Len(combinations) > 0
    /\ \E a, b \in DOMAIN summary : a < b /\ summary[a].score = summary[b].score

\* the mean score of strategy s in the i-th dispatched pairing, 0 when the
\* pairing does not contain s
ownMean(i, s) ==
    IF combinations[i][1] = s THEN tasks[i].result.avgScoreA
    ELSE IF combinations[i][2] = s THEN tasks[i].result.avgScoreB
    ELSE 0

RECURSIVE sumOwnMeans(_, _)
sumOwnMeans(s, n) == IF n = 0 THEN 0 ELSE sumOwnMeans(s, n - 1) + ownMean(n, s)

\* C2: when the tournament has consumed every result, scoreKeeper holds,
\* for every strategy of the population, the sum of that strategy's own mean
\* score over the dispatched pairings that contain it, whatever the order of
\* completion and the mix of cache hits and misses.
C2_ScoreKeeperIsSum ==
    pc \in {"rank", "done"} =>
      /\ DOMAIN scoreKeeper = Range(STRATEGY_LIST)
      /\ \A s \in Range(STRATEGY_LIST) :
            scoreKeeper[s] = sumOwnMeans(s, Len(combinations))

\* a finished run of three pairings, some served by the cache and some
\* computed, one of them with different mean scores for its two players
C2_MixedRunFinished ==
    /\ pc = "done"
    /\ Len(tasks) = 3
    /\ hits > 0
    /\ hits < Len(tasks)
    /\ \E i \in DOMAIN tasks : tasks[i].result.avgScoreA # tasks[i].result.avgScoreB

(***************************************************************************)
(* Properties of the scheduler (specification SpecSched)                   *)
(***************************************************************************)
dispatched == pc \in {"pool", "rank", "done"}

\* the dispatched pairings that are the unordered pair {a, b}
pairingsOf(a, b) ==
    { i \in DOMAIN combinations : {combinations[i][1], combinations[i][2]} = {a, b} }

\* C3: without a single-strategy filter a population of n >= 2 strategies
\* is dispatched as n(n-1)/2 pairings: every unordered pair of two distinct
\* strategies exactly once, no strategy with itself, never (A,B) and (B,A).
C3_EveryPairOnce ==
    (dispatched /\ Len(args.strategies) # 1) =>
      LET n == Len(STRATEGY_LIST) IN
      /\ n >= 2
      /\ Len(tasks) = Len(combinations)
      /\ 2 * Len(combinations) = n * (n - 1)
      /\ \A i \in DOMAIN combinations :
            /\ combinations[i][1] # combinations[i][2]
            /\ {combinations[i][1], combinations[i][2]} \subseteq Range(STRATEGY_LIST)
      /\ \A a, b \in Range(STRATEGY_LIST) :
            a # b => Cardinality(pairingsOf(a, b)) = 1

\* a finished run of the whole population of three strategies
C3_ThreeStrategiesPaired ==
    /\ pc = "done"
    /\ args.strategies = << >>
    /\ Len(STRATEGY_LIST) = 3
    /\ \A i \in DOMAIN tasks : tasks[i].status = "done"

\* C4: with exactly one requested strategy, every dispatched pairing
\* contains it and pairs it with another strategy, and when it is in the
\* population the dispatched pairings are it against each other strategy,
\* once each.
C4_SingleStrategyPairs ==
    (dispatched /\ Len(args.strategies) = 1) =>
      LET wanted == args.strategies[1] IN
      /\ Len(tasks) = Len(combinations)
      /\ \A i \in DOMAIN combinations :
            /\ wanted \in {combinations[i][1], combinations[i][2]}
            /\ combinations[i][1] # combinations[i][2]
            /\ {combinations[i][1], combinations[i][2]} \subseteq Range(STRATEGY_LIST)
      /\ wanted \in Range(STRATEGY_LIST) =>
            /\ Len(combinations) = Len(STRATEGY_LIST) - 1
            /\ \A other \in Range(STRATEGY_LIST) \ {wanted} :
                  Cardinality(pairingsOf(wanted, other)) = 1

\* a finished run for the strategy in the middle of a population of three:
\* it is the second of one pairing and the first of the other
C4_MiddleStrategyPaired ==
    /\ pc = "done"
    /\ Len(STRATEGY_LIST) = 3
    /\ args.strategies = << STRATEGY_LIST[2] >>
    /\ Len(tasks) = 2

\* C5: with fewer than 2 eligible strategies the run fails with the
\* configuration error before any pairing is dispatched and before any
\* strategy is invoked, and no run completes with zero pairings.
C5_NoRunWithoutPairings ==
    /\ (pc # "start" /\ Len(STRATEGY_LIST) < 2) =>
          /\ pc = "error"
          /\ tasks = << >>
          /\ \A w \in Workers : workers[w] = IdleWorker
    /\ pc \in {"rank", "done"} => Len(combinations) > 0

\* a run that ends without a pairing and without the error
C5_EmptyRunFinished ==
    /\ pc = "done"
    /\ Len(combinations) = 0
    /\ Len(STRATEGY_LIST) >= 2

(***************************************************************************)
(* Properties of the cache and of the workers (specification Spec)         *)
(***************************************************************************)
\* C6: in a run with the cache enabled no two workers are, at the same
\* time, past a miss for the same key, and each key receives at most one
\* cache insert during the run.
C6_OneInsertPerKey ==
    /\ \A k \in DOMAIN inserts : inserts[k] <= 1
    /\ args.cache =>
          \A w1, w2 \in Workers :
             (w1 # w2 /\ workers[w1].phase = "miss" /\ workers[w2].phase = "miss") =>
                cacheKey(combinations[workers[w1].task])
                   # cacheKey(combinations[workers[w2].task])

\* one worker computes a missed pair while the other has called runRounds,
\* after an insert of this run
C6_WorkersContend ==
    /\ args.cache
    /\ \E w1, w2 \in Workers :
          workers[w1].phase = "miss" /\ workers[w2].phase = "called"
    /\ \E k \in DOMAIN inserts : inserts[k] = 1

\* every result that came from the cache is the stored entry, with elapsed
\* time 0, and its runRounds invoked no strategy and made no insert
hitsReturnStored ==
    \A i \in DOMAIN tasks :
       (tasks[i].status = "done" /\ tasks[i].result.cached) =>
          /\ cacheHas(cacheStore, combinations[i])
          /\ LET entry == cacheGet(cacheStore, combinations[i])
                 result == tasks[i].result
             IN  /\ result.avgScoreA = entry.avgScoreA
                 /\ result.avgScoreB = entry.avgScoreB
                 /\ result.stdevA = entry.stdevA
                 /\ result.stdevB = entry.stdevB
                 /\ result.firstRoundHistory = entry.firstRoundHistory
                 /\ result.pairTime = 0
          /\ ~tasks[i].trace.invoked
          /\ ~tasks[i].trace.inserted
          /\ tasks[i].trace.rounds = 0

\* C7: no step changes an entry the cache holds, and a runRounds that finds
\* an entry for its pair returns the stored values with the cached flag and
\* elapsed time 0, invokes no strategy and makes no insert, under whatever
\* run count and deterministic-turn count the entry was written.
C7_EntriesImmutable ==
    [][ /\ \A k \in DOMAIN cacheStore :
              k \in DOMAIN cacheStore' => cacheStore'[k] = cacheStore[k]
        /\ hitsReturnStored' ]_vars

\* in a second run with 2 runs per pairing and 201 deterministic turns, a
\* hit on an entry of one score and 200 turns: no entry written under this
\* configuration is like that
C7_HitUnderOtherConfiguration ==
    /\ runNo = 2
    /\ args.num_runs = 2
    /\ args.det_turns = MIN_TURNS + 1
    /\ \E i \in DOMAIN tasks :
          /\ tasks[i].status = "done"
          /\ tasks[i].result.cached
          /\ tasks[i].result.stdevA.zero
          /\ Len(tasks[i].result.firstRoundHistory[1]) = MIN_TURNS

\* C8: strategies are loaded fresh per pairing per worker: a pairing that
\* is computed starts with the module state of both its strategies as it is
\* after loading, whatever the worker computed before.
C8_FreshPerPairing ==
    \A i \in DOMAIN tasks :
       (tasks[i].status = "done" /\ ~tasks[i].result.cached) =>
          tasks[i].trace.globA = 0 /\ tasks[i].trace.globB = 0

\* a computed pairing that began with state an earlier pairing left
C8_StateLeaked ==
    \E i \in DOMAIN tasks :
       /\ tasks[i].status = "done"
       /\ ~tasks[i].result.cached
       /\ tasks[i].trace.globA + tasks[i].trace.globB > 0

(***************************************************************************)
(* Properties of one runRounds (specification SpecRound)                   *)
(***************************************************************************)
\* C9: runDeterministic returns False exactly when a probe move of the
\* turn differs from the official move, and completes only after
\* DETERMINISTIC_TURNS agreeing turns; a round is sampled only after a
\* False, then exactly NUM_RUNS rounds are, and after a complete oracle no
\* round is run and the result is the single exact outcome.
C9_ExactOrSampled ==
    /\ engine.phase = "runDeterministic" =>
          /\ (engine.es.result = "False") <=> engine.disagreed
          /\ engine.es.result = "complete" =>
                engine.es.turn = DETERMINISTIC_TURNS
          /\ engine.es.turn = Len(engine.playedA) - (IF engine.disagreed THEN 1 ELSE 0)
    /\ engine.phase \in {"sampling", "runRound", "mean", "returned"} =>
          (engine.deterministic = "False") <=> engine.disagreed
    /\ engine.phase \in {"sampling", "runRound"} =>
          /\ engine.deterministic = "False"
          /\ engine.rounds <= NUM_RUNS
    /\ engine.phase = "returned" =>
          IF engine.disagreed
          THEN /\ engine.rounds = NUM_RUNS
               /\ Len(engine.allScoresA) = NUM_RUNS
               /\ Len(engine.allScoresB) = NUM_RUNS
          ELSE /\ engine.rounds = 0
               /\ Len(engine.firstRoundHistory[1]) = DETERMINISTIC_TURNS
               /\ engine.allScoresA = << detTotals(engine.firstRoundHistory)[1] >>
               /\ engine.allScoresB = << detTotals(engine.firstRoundHistory)[2] >>
               /\ engine.result.avgScoreA = detTotals(engine.firstRoundHistory)[1]
               /\ engine.result.avgScoreB = detTotals(engine.firstRoundHistory)[2]

\* runRounds has returned after a disagreement of player B at the last
\* deterministic turn and two sampled rounds
C9_SampledAfterLateDisagreement ==
    /\ engine.phase = "returned"
    /\ engine.disagreed
    /\ engine.pair[2] = "coin"
    /\ DETERMINISTIC_TURNS = MIN_TURNS + 1
    /\ engine.rounds = 2

\* C10: every strategy call of a turn t, official or probe, in runRound and
\* in runDeterministic, is given exactly the t turns before t, the called
\* player's own moves in row 0 and the opponent's in row 1, as a copy: the
\* call leaves the engine's array as it was, and the canonical and flipped
\* histories hold the moves that were played.
C10_SnapshotIsCopyOfPast ==
    engine.phase \in {"runDeterministic", "runRound"} =>
      /\ \A k \in DOMAIN engine.es.calls :
            LET c   == engine.es.calls[k]
                own == IF c.player = "A" THEN engine.playedA ELSE engine.playedB
                opp == IF c.player = "A" THEN engine.playedB ELSE engine.playedA
            IN  /\ c.turn = Len(engine.playedA) - 1
                /\ Len(c.snap[1]) = c.turn
                /\ Len(c.snap[2]) = c.turn
                /\ c.snap[1] = SubSeq(own, 1, c.turn)
                /\ c.snap[2] = SubSeq(opp, 1, c.turn)
                /\ c.after = c.before
      /\ \A j \in 1..Len(engine.playedA) :
            /\ engine.es.history[1][j] = engine.playedA[j]
            /\ engine.es.history[2][j] = engine.playedB[j]
      /\ \A j \in 1..engine.es.turn :
            /\ engine.es.historyFlipped[1][j] = engine.playedB[j]
            /\ engine.es.historyFlipped[2][j] = engine.playedA[j]

\* the last turn of a round of 201 turns in which the first player
\* overwrote every array it was given and the opponent has cooperated
C10_VandalPlayedRound ==
    /\ engine.phase = "runRound"
    /\ engine.pair = <<"vandal", "coin">>
    /\ engine.es.turn = MIN_TURNS + 1
    /\ engine.playedB[1] = 1
    /\ engine.es.calls[1].snap[2][1] = 1

(***************************************************************************)
(* Properties of the stored moves (specification SpecMoves)                *)
(***************************************************************************)
\* C11: whatever value a strategy returns, strategyMove makes it 0 or 1
\* before it is stored: every cell of the move history is 0 or 1.
C11_CellsAreCodes ==
    engine.phase = "moves" =>
      \A row \in 1..2, j \in 1..MoveTurns :
         /\ engine.history[row][j] \in {0, 1}
         /\ engine.historyFlipped[row][j] \in {0, 1}

\* a returned integer that is no move code is in the history as it came
C11_ForeignCodeStored ==
    /\ engine.phase = "moves"
    /\ engine.turn = MoveTurns
    /\ engine.history[1][1] = 2

\* C14: the sampled game length of runRound is at least 200, and in a round
\* of length T each strategy is invoked exactly T times, once per turn
\* 0..T-1.
C14_LengthAndCalls ==
    engine.phase = "runRound" =>
      /\ engine.es.length >= MIN_TURNS
      /\ engine.es.length \in { lengthOfGame(negLog) : negLog \in NegLogDraws }
      /\ engine.es.turn <= engine.es.length
      /\ Len(engine.playedA) = engine.es.turn
      /\ Len(engine.playedB) = engine.es.turn
      /\ engine.es.ncalls = 2 * engine.es.turn
      /\ engine.es.turn > 0 =>
            /\ Len(engine.es.calls) = 2
            /\ engine.es.calls[1].player = "A"
            /\ engine.es.calls[2].player = "B"
            /\ \A k \in 1..2 : engine.es.calls[k].turn = engine.es.turn - 1

\* a round of 201 turns at its end
C14_LongRoundPlayed ==
    /\ engine.phase = "runRound"
    /\ engine.es.length = MIN_TURNS + 1
    /\ engine.es.turn = engine.es.length

(***************************************************************************)
(* The tournament of alwaysCooperate and alwaysDefect (specification Spec) *)
(***************************************************************************)
\* C15: for the population {alwaysCooperate, alwaysDefect} exactly one
\* pairing is run, it is classified deterministic and no round is sampled
\* whatever the run count, alwaysDefect's cumulative score is strictly
\* greater than alwaysCooperate's, and the ranking lists alwaysDefect first.
C15_DefectOutranksCooperate ==
    (pc # "start" /\ Range(STRATEGY_LIST) = {"alwaysCooperate", "alwaysDefect"}) =>
      /\ Len(combinations) = 1
      /\ Len(tasks) = 1
      /\ (tasks[1].status = "done" /\ ~tasks[1].result.cached) =>
            /\ tasks[1].trace.deterministic
            /\ tasks[1].trace.rounds = 0
      /\ tasks[1].status = "done" =>
            /\ tasks[1].result.stdevA.zero
            /\ tasks[1].result.stdevB.zero
      /\ pc \in {"rank", "done"} =>
            scoreKeeper["alwaysDefect"] > scoreKeeper["alwaysCooperate"]
      /\ pc = "done" =>
            /\ summary[1].name = "alwaysDefect"
            /\ summary[2].name = "alwaysCooperate"
            /\ summary[1].score > summary[2].score

\* the run of the two with 2 runs per pairing, computed and ranked
C15_TwoStrategiesRanked ==
    /\ pc = "done"
    /\ STRATEGY_LIST = <<"alwaysCooperate", "alwaysDefect">>
    /\ args.num_runs = 2
    /\ ~tasks[1].result.cached

(***************************************************************************)
(* More properties of one runRounds (specification SpecRound)              *)
(***************************************************************************)
\* C16: runRounds always has its standard deviations: they are 0 when the
\* aggregate has fewer than 2 outcomes (the deterministic path, with its one
\* outcome, and sampling with a run count of 1), and with 2 or more
\* outcomes they are the standard deviations of the per-round scores.
C16_StdevDefined ==
    engine.phase = "returned" =>
      /\ Len(engine.allScoresA) >= 1
      /\ Len(engine.allScoresB) = Len(engine.allScoresA)
      /\ engine.deterministic = "totals" => Len(engine.allScoresA) = 1
      /\ engine.deterministic = "False" => Len(engine.allScoresA) = NUM_RUNS
      /\ IF Len(engine.allScoresA) < 2
         THEN /\ engine.result.stdevA.zero
              /\ engine.result.stdevB.zero
         ELSE /\ ~engine.result.stdevA.zero
              /\ ~engine.result.stdevB.zero
              /\ engine.result.stdevA.of = engine.allScoresA
              /\ engine.result.stdevB.of = engine.allScoresB

\* runRounds has returned after sampling one round
C16_OneRoundSampled ==
    /\ engine.phase = "returned"
    /\ engine.deterministic = "False"
    /\ NUM_RUNS = 1
    /\ engine.rounds = 1

\* C18: in runDeterministic each strategy is called twice per turn with
\* the same snapshot; the official call is given the memory its official
\* call of the turn before returned, the probe call the memory its probe
\* call of the turn before returned, all four the sentinel None at turn 0;
\* and the move written to the history is the official one.
C18_ChainsIndependent ==
    [][ (/\ engine.phase = "runDeterministic"
         /\ engine'.phase = "runDeterministic"
         /\ engine' # engine) =>
          LET earlier == engine.es.calls
              calls   == engine'.es.calls
              turn    == engine.es.turn
          IN  /\ Len(calls) = 4
              /\ << calls[1].player, calls[2].player,
                    calls[3].player, calls[4].player >> = <<"A", "B", "A", "B">>
              /\ << calls[1].kind, calls[2].kind, calls[3].kind, calls[4].kind >>
                    = <<"official", "official", "probe", "probe">>
              /\ \A k \in 1..4 :
                    /\ calls[k].turn = turn
                    /\ calls[k].memIn = IF turn = 0 THEN None ELSE earlier[k].memOut
              /\ calls[3].snap = calls[1].snap
              /\ calls[4].snap = calls[2].snap
              /\ engine'.es.history[1][turn + 1] = calls[1].move
              /\ engine'.es.history[2][turn + 1] = calls[2].move
              /\ engine'.es.memA = calls[1].memOut
              /\ engine'.es.memB = calls[2].memOut
      ]_vars

\* a later turn of an oracle run whose two chains hold different memories
\* for the first player
C18_ChainsDiverged ==
    /\ engine.phase = "runDeterministic"
    /\ engine.es.turn > 2
    /\ engine.es.result = "running"
    /\ engine.es.calls[1].memIn # engine.es.calls[3].memIn

\* the history of the first T turns of H
firstTurns(H, T) == << SubSeq(H[1], 1, T), SubSeq(H[2], 1, T) >>

\* the sum, over the game lengths T from 200 to upTo, of turnChances[T-200]
\* times the average score of player `row` over the first T turns of H
RECURSIVE weightedAverages(_, _, _)
weightedAverages(H, row, upTo) ==
    IF upTo < MIN_TURNS THEN 0
    ELSE LET chance  == turnChances(Len(H[1]))[upTo - (MIN_TURNS - 1)]
             average == tallyRoundScores(firstTurns(H, upTo))[row]
         IN  weightedAverages(H, row, upTo - 1)
             + (average \div chance[2]) * chance[1]

\* C19: for a deterministic pair with full-length history H the score of
\* each player is the sum, over the game lengths T from 200 to
\* DETERMINISTIC_TURNS, of turnChances[T-200] times the average score
\* tallyRoundScores gives on the first T turns of H.
C19_TotalsAreWeightedAverages ==
    (engine.phase \in {"mean", "returned"} /\ engine.deterministic = "totals") =>
      LET H == engine.firstRoundHistory IN
      /\ Len(H[1]) = DETERMINISTIC_TURNS
      /\ \A T \in MIN_TURNS..DETERMINISTIC_TURNS, row \in 1..2 :
            tallyRoundScores(firstTurns(H, T))[row]
               % turnChances(DETERMINISTIC_TURNS)[T - (MIN_TURNS - 1)][2] = 0
      /\ engine.allScoresA = << weightedAverages(H, 1, DETERMINISTIC_TURNS) >>
      /\ engine.allScoresB = << weightedAverages(H, 2, DETERMINISTIC_TURNS) >>

\* the exact outcome of grimTrigger against alwaysDefect over 201 turns:
\* the first turn differs from the rest
C19_ExactOutcomeOfGrimTrigger ==
    /\ engine.phase = "returned"
    /\ engine.deterministic = "totals"
    /\ engine.pair = <<"grimTrigger", "alwaysDefect">>
    /\ DETERMINISTIC_TURNS = MIN_TURNS + 1

(***************************************************************************)
(* The coordinator's loop (specification Spec)                             *)
(***************************************************************************)
\* the compute time of the first n consumed pairings that contain s
RECURSIVE sumPairTimes(_, _)
sumPairTimes(s, n) ==
    IF n = 0 THEN 0
    ELSE sumPairTimes(s, n - 1)
         + (IF s \in {combinations[n][1], combinations[n][2]}
            THEN tasks[n].result.pairTime ELSE 0)

\* C17: the i-th result the coordinator processes is the result computed
\* for the i-th dispatched pairing, whatever the order of completion: the
\* scores, standard deviations, histories and compute time it records are
\* attributed to the two strategies of that pairing.
C17_ResultsInDispatchOrder ==
    /\ Len(allResults) = consumed
    /\ \A i \in DOMAIN tasks :
          tasks[i].status = "done" => tasks[i].trace.pair = combinations[i]
    /\ \A i \in 1..consumed :
          /\ tasks[i].status = "done"
          /\ allResults[i].playerA =
                [name |-> combinations[i][1],
                 avgScore |-> tasks[i].result.avgScoreA,
                 stdev |-> tasks[i].result.stdevA,
                 history |-> tasks[i].result.firstRoundHistory[1]]
          /\ allResults[i].playerB =
                [name |-> combinations[i][2],
                 avgScore |-> tasks[i].result.avgScoreB,
                 stdev |-> tasks[i].result.stdevB,
                 history |-> tasks[i].result.firstRoundHistory[2]]
    /\ \A s \in DOMAIN strategyTimes :
          strategyTimes[s] = sumPairTimes(s, consumed)

\* the third pairing has completed while the second is still running, and
\* the coordinator has consumed the first
C17_CompletedOutOfOrder ==
    /\ pc = "pool"
    /\ Len(tasks) = 3
    /\ consumed = 1
    /\ tasks[2].status = "running"
    /\ tasks[3].status = "done"

(***************************************************************************)
(* Termination (specification SpecLive)                                    *)
(***************************************************************************)
\* at a progress report: the hits are the consumed results that came from
\* the cache, the misses (i - hits) the ones that were computed, and their
\* sum is the number of pairings consumed, each of them once
progressCounted ==
    /\ consumed <= Len(combinations)
    /\ Len(allResults) = consumed
    /\ hits = Cardinality({ i \in 1..consumed : tasks[i].result.cached })
    /\ consumed - hits = Cardinality({ i \in 1..consumed : tasks[i].trace.invoked })
    /\ \A i \in 1..consumed :
          << allResults[i].playerA.name, allResults[i].playerB.name >> = combinations[i]
    /\ pc \in {"rank", "done"} => consumed = Len(combinations)

\* C20: when every strategy call returns and no worker fails, a started
\* run ends, with the error or with every dispatched pairing consumed
\* exactly once; at every progress report the hits plus the misses are the
\* pairings consumed so far, and at the end all of them.
C20_Terminates ==
    /\ []progressCounted
    /\ (pc = "start") ~> (pc \in {"done", "error"})
    /\ (pc = "pool") ~> (pc = "done" /\ consumed = Len(combinations))

\* the end of a second run that consumed three pairings, some of them hits
C20_SecondRunEnded ==
    /\ pc = "done"
    /\ runNo = 2
    /\ consumed = 3
    /\ hits = 2

(***************************************************************************)
(* Properties of the table and of the totals in doubles (SpecFloat)        *)
(***************************************************************************)
\* the table has been built and normalised
tableBuilt == engine.phase \in {"built", "scoring", "returned"}

\* runDeterministic has returned the totals of a pair whose strategies both
\* return `move` on every turn
returnedFor(move) == engine.phase = "returned" /\ engine.moves = <<move, move>>

\* C12: for a pair in which both strategies always return the same move,
\* runDeterministic yields exactly 3 for both players when both always
\* cooperate and exactly 1 for both when both always defect, for every
\* number of deterministic turns from 200 on.
C12_ExactDiagonalPayoff ==
    \A move \in {0, 1} :
       returnedFor(move) =>
          engine.totals = << FloatOfInt(Points(move, move)),
                             FloatOfInt(Points(move, move)) >>

\* two strategies that always cooperate have been scored, and the total of
\* the first is not 3
C12_CooperatorsOffThree ==
    /\ returnedFor(1)
    /\ engine.totals[1] # FloatOfInt(Points(1, 1))

\* the doubles within 2^-ToleranceBits, relatively, of num / den
ToleranceBits == MantissaBits - 5

FloatNear(x, num, den) ==
    LET scaled == BMul(BShl(x.m, IF x.e > 0 THEN x.e ELSE 0), den)
        exact  == BShl(num, IF x.e < 0 THEN 0 - x.e ELSE 0)
        diff   == IF BCmp(scaled, exact) >= 0 THEN BSub(scaled, exact)
                  ELSE BSub(exact, scaled)
    IN  BCmp(BShl(diff, ToleranceBits), exact) <= 0

\* turnChances while it is filled and once it is normalised
tableWithinTolerance ==
    /\ engine.phase = "table" =>
          \A i \in 1..Len(engine.turnChances) :
             FloatNear(engine.turnChances[i],
                       BPow(HAZARD_INV - 1, i - 1), BPow(HAZARD_INV, i))
    /\ tableBuilt =>
          /\ Len(engine.turnChances) = DETERMINISTIC_TURNS - (MIN_TURNS - 1)
          /\ FloatNear(FloatSum(engine.turnChances), <<1>>, <<1>>)

====
